---- MODULE Spec2Model ----
(***************************************************************************)
(* The transparent token contract (contract/src/lib.rs) with its request   *)
(* types (types/src/lib.rs), driven as the test harness drives it: the     *)
(* contract is deployed with a genesis list and is then called by          *)
(* top-level session calls and by recipient contracts from inside their    *)
(* token_received acceptance function.                                   *)
(***************************************************************************)
EXTENDS Integers, Sequences, FiniteSets, TLC

\* ------------------------------------------------------------------ bounds
\* Largest value a request or a genesis entry carries.
MaxValue == 2
\* Longest genesis list.
MaxGenesis == 2
\* Number of calls a session makes after the deployment; no nonce exceeds it.
MaxCalls == 2
\* Largest amount a balance or the supply holds: u64::MAX, scaled to the
\* amounts of the model so that genesis lists can exceed it.
U64_MAX == 3
\* Number of keys and of contract ids the comparison of accounts is tried on.
MaxOrdIds == 3

\* ------------------------------------------------------- program constants
\* Width of PublicKey::to_raw_bytes, the first summand of SIGNATURE_MSG_SIZE.
PK_RAW_SIZE == 193
\* Width of Account::to_bytes.
ACCOUNT_SIZE == 194
\* Width of ContractId::to_bytes, as in the tests' ContractId::from_bytes([1; 32]).
CONTRACT_ID_SIZE == 32
\* Width of u64::to_le_bytes.
U64_SIZE == 8

\* --------------------------------------------------------------- identities
\* The BLS key pairs of the model; a key stands for the pair (sk, pk).
Keys == {1, 2}
\* The contracts other than the token contract itself.
Contracts == {1}

External(pk) == [kind |-> "External", id |-> pk]
Contract(id) == [kind |-> "Contract", id |-> id]
\* enum Account.
Account == {External(k) : k \in Keys} \cup {Contract(c) : c \in Contracts}
\* Option::None where an Option<Account> or Option<ContractId> is expected.
None == [kind |-> "None", id |-> 0]

\* AccountInfo::EMPTY.
EMPTY == [balance |-> 0, nonce |-> 0]

\* BTreeMap::new().
EmptyMap == [x \in {} |-> 0]
\* Mutant: the insertion drops the other entries of the map.
InsertAlone(map, key, value) == [k \in {key} |-> value]
\* BTreeMap::insert.
Insert(map, key, value) == [x \in DOMAIN map \cup {key} |-> IF x = key THEN value ELSE map[x]]
\* BTreeMap::entry(key).or_insert(value), the map after it.
OrInsert(map, key, value) == IF key \in DOMAIN map THEN map ELSE Insert(map, key, value)

\* The keys and the contract ids accounts are compared on.
OrdIds == 1..MaxOrdIds
OrdAccount == {External(k) : k \in OrdIds} \cup {Contract(c) : c \in OrdIds}

\* ------------------------------------------------------ signature messages
Zeros(n) == [i \in 1..n |-> 0]
\* PublicKey::to_raw_bytes: the 193 raw bytes of a key, injective in the key.
PkRawBytes == [k \in Keys \cup OrdIds |-> [i \in 1..PK_RAW_SIZE |-> k]]
\* ContractId::to_bytes.
ContractBytes == [c \in Contracts \cup OrdIds |-> [i \in 1..CONTRACT_ID_SIZE |-> c]]
\* Account::to_bytes: a tag byte, the key or id bytes, zero padding.
AccountBytes ==
    [a \in Account |->
        IF a.kind = "External"
        THEN <<0>> \o PkRawBytes[a.id]
        ELSE <<1>> \o ContractBytes[a.id] \o Zeros(ACCOUNT_SIZE - 1 - CONTRACT_ID_SIZE)]
\* The n low bytes of v, least significant first.
RECURSIVE LowBytes(_, _)
LowBytes(v, n) == IF n = 0 THEN <<>> ELSE <<v % 256>> \o LowBytes(v \div 256, n - 1)
\* Values of more than one byte, for the messages that are compared.
WideValues == {256}
\* Mutant: only the low byte of a value is encoded.
U64BytesLowOnly ==
    [v \in 0..(MaxValue + MaxCalls) \cup WideValues |-> <<v % 256>> \o Zeros(U64_SIZE - 1)]
\* u64::to_le_bytes, tabulated over the values and nonces requests carry.
U64Bytes == [v \in 0..(MaxValue + MaxCalls) \cup WideValues |-> LowBytes(v, U64_SIZE)]
LeBytes(v) == U64Bytes[v]

\* Transfer::SIGNATURE_MSG_SIZE, TransferFrom::SIGNATURE_MSG_SIZE and
\* Approve::SIGNATURE_MSG_SIZE.
Transfer_SIGNATURE_MSG_SIZE == PK_RAW_SIZE + ACCOUNT_SIZE + U64_SIZE + U64_SIZE
TransferFrom_SIGNATURE_MSG_SIZE == PK_RAW_SIZE + ACCOUNT_SIZE + ACCOUNT_SIZE + U64_SIZE + U64_SIZE
Approve_SIGNATURE_MSG_SIZE == PK_RAW_SIZE + ACCOUNT_SIZE + U64_SIZE + U64_SIZE

\* Transfer::signature_message.
TransferMessage(t) ==
    PkRawBytes[t.from] \o AccountBytes[t.to] \o LeBytes(t.value) \o LeBytes(t.nonce)
\* TransferFrom::signature_message.
TransferFromMessage(t) ==
    PkRawBytes[t.spender] \o AccountBytes[t.owner] \o AccountBytes[t.to]
        \o LeBytes(t.value) \o LeBytes(t.nonce)
\* Approve::signature_message.
ApproveMessage(a) ==
    PkRawBytes[a.owner] \o AccountBytes[a.spender] \o LeBytes(a.value) \o LeBytes(a.nonce)

\* The message of a request body of any of the three signed kinds.
SignatureMessage(body) ==
    CASE body.kind = "Transfer" -> TransferMessage(body)
      [] body.kind = "TransferFrom" -> TransferFromMessage(body)
      [] body.kind = "Approve" -> ApproveMessage(body)

\* SecretKey::sign: a signature is determined by the signing key and by the
\* bytes signed; it is kept as the key and the request body whose message
\* was signed.
Sign(sk, body) == [signer |-> sk, body |-> body]
\* rusk_abi::verify_bls(msg, pk, sig).
verify_bls(msg, pk, sig) == sig.signer = pk /\ SignatureMessage(sig.body) = msg

\* --------------------------------------------------------- Ord for Account
Less == "Less"
Equal == "Equal"
Greater == "Greater"
\* Ord for byte arrays of one length: the order of the first bytes that differ.
CmpBytes(lhs, rhs) ==
    LET differ == {i \in 1..Len(lhs) : lhs[i] # rhs[i]}
    IN  IF differ = {} THEN Equal
        ELSE LET i == CHOOSE x \in differ : \A y \in differ : x <= y
             IN  IF lhs[i] < rhs[i] THEN Less ELSE Greater
\* Mutant: accounts of different kinds are compared by their bytes, then kind.
cmp_Interleaved(lhs, rhs) ==
    CASE lhs.kind = rhs.kind /\ lhs.kind = "External" ->
             CmpBytes(PkRawBytes[lhs.id], PkRawBytes[rhs.id])
      [] lhs.kind = rhs.kind /\ lhs.kind = "Contract" ->
             CmpBytes(ContractBytes[lhs.id], ContractBytes[rhs.id])
      [] lhs.kind = "External" /\ rhs.kind = "Contract" ->
             IF lhs.id <= rhs.id THEN Less ELSE Greater
      [] lhs.kind = "Contract" /\ rhs.kind = "External" ->
             IF rhs.id <= lhs.id THEN Greater ELSE Less
\* Ord::cmp for Account.
cmp(lhs, rhs) ==
    CASE lhs.kind = "External" /\ rhs.kind = "External" ->
             CmpBytes(PkRawBytes[lhs.id], PkRawBytes[rhs.id])
      [] lhs.kind = "Contract" /\ rhs.kind = "Contract" ->
             CmpBytes(ContractBytes[lhs.id], ContractBytes[rhs.id])
      [] lhs.kind = "External" /\ rhs.kind = "Contract" -> Greater
      [] lhs.kind = "Contract" /\ rhs.kind = "External" -> Less

\* ------------------------------------------------------------ the contract
VARIABLES
    accounts,    \* TokenState.accounts: BTreeMap<Account, AccountInfo>
    allowances,  \* TokenState.allowances: BTreeMap<Account, BTreeMap<Account, u64>>
    supply,      \* TokenState.supply
    deployed,    \* whether the session has deployed the contract (run init)
    ncalls,      \* the number of calls the session has made on the contract
    accepted,    \* per key, its accepted signed requests, in order
    granted,     \* per owner and spender, the last approve and what was moved since
    last         \* the call the session has just made and how it ended

vars == <<accounts, allowances, supply, deployed, ncalls, accepted, granted, last>>

\* static mut STATE.
InitialState == [accounts |-> EmptyMap, allowances |-> EmptyMap, supply |-> 0]

Ok == "ok"
\* The panic messages of the contract.
NoTokensToTransfer == "The account has no tokens to transfer"
NotEnoughTokens == "The account doesn't have enough tokens"
NonSequentialNonce == "Nonces must be sequential"
InvalidSignature == "Invalid signature"
NoAllowances == "The account has no allowances"
SpenderNotAllowed == "The spender is not allowed to use the account"
AllowanceExceeded == "The spender can't spent the defined amount"
NoCallingContract == "Must be called by a contract"
ContractHasNoTokens == "Contract has no tokens to transfer"
ContractNotEnoughTokens == "The contract doesn't have enough tokens"
TokenReceivedFailed == "Failed calling token_received on the receiving contract"

\* What a run of an entry point leaves: the contract's memory when it returned
\* or panicked, how it ended, the events it emitted, the token_received calls
\* it made, and the transfers the recipients sent from inside token_received
\* with the result each got back, all in order.
Return(self, events, calls, sent) ==
    [state |-> self, err |-> Ok, events |-> events, calls |-> calls, sent |-> sent]
Panic(self, msg, events, calls, sent) ==
    [state |-> self, err |-> msg, events |-> events, calls |-> calls, sent |-> sent]

\* Mutant: the Transfer event names no spender.
TransferEventSpenderNone(owner, spender, to, value) ==
    [topic |-> "transfer", owner |-> owner, spender |-> None, to |-> to, value |-> value]
\* TransferEvent and ApproveEvent, as given to rusk_abi::emit.
TransferEvent(owner, spender, to, value) ==
    [topic |-> "transfer", owner |-> owner, spender |-> spender, to |-> to, value |-> value]
ApproveEvent(owner, spender, value) ==
    [topic |-> "approve", owner |-> owner, spender |-> spender, to |-> None, value |-> value]
\* TransferInfo, with the contract whose token_received is called with it.
TransferInfo(contract, from, value) == [contract |-> contract, from |-> from, value |-> value]

\* Whether the contract is built with overflow checks, so that an overflowing
\* + panics instead of wrapping; the build profile decides it.
OverflowChecks == TRUE
\* The panic of an overflowing + under overflow checks.
ArithmeticOverflow == "attempt to add with overflow"
\* What AddU64 gives for a sum that panics.
Overflowed == -1
\* Mutant: the amount is stored over the old one.
AddU64Overwrites(a, b) == b
\* Mutant: the sum wraps.
AddU64Wrapping(a, b) == (a + b) % (U64_MAX + 1)
\* a += b on u64: the sum, and beyond u64::MAX the panic or the wrapped sum.
AddU64(a, b) ==
    IF a + b <= U64_MAX THEN a + b
    ELSE IF OverflowChecks THEN Overflowed ELSE (a + b) % (U64_MAX + 1)

\* TokenState::init.
RECURSIVE init(_, _)
init(self, list) ==
    IF list = <<>> THEN Return(self, <<>>, <<>>, <<>>)
    ELSE LET account == Head(list)[1]
             balance == Head(list)[2]
             inserted == [self EXCEPT !.accounts = OrInsert(@, account, EMPTY)]
             sum == AddU64(inserted.accounts[account].balance, balance)
             total == AddU64(self.supply, balance)
             credited == [inserted EXCEPT !.accounts[account].balance = sum]
         IN  IF sum = Overflowed
             THEN Panic(inserted, ArithmeticOverflow, <<>>, <<>>, <<>>)
             ELSE IF total = Overflowed
             THEN Panic(credited, ArithmeticOverflow, <<>>, <<>>, <<>>)
             ELSE init([credited EXCEPT !.supply = total], Tail(list))

\* ---------------------------------------------- the acceptance function
\* How a recipient contract answers one token_received call: it may first
\* call transfer_from_contract on the token contract, or transfer_from with a
\* signed request it holds (send), and it then returns (accept) or panics
\* (reject). The contract called by a nested
\* transfer answers without calling back.
Answers == {"accept", "reject"}
NoSend == <<>>
LeafBehaviour == [send : {NoSend}, result : Answers]
NestedTransfer == [to : Account, from : {None}, value : 0..MaxValue, cb : LeafBehaviour]
Behaviour == LeafBehaviour \cup [send : {<<t>> : t \in NestedTransfer}, result : Answers]
\* The behaviour recorded for a call that reaches no acceptance function.
NotCalled == [send |-> NoSend, result |-> "accept"]

\* TokenState::name, TokenState::symbol, TokenState::decimals.
name(self) == "Transparent Fungible Token Sample"
symbol(self) == "TFTS"
decimals(self) == 18
\* TokenState::total_supply.
total_supply(self) == self.supply
\* TokenState::account.
account(self, a) == IF a \in DOMAIN self.accounts THEN self.accounts[a] ELSE EMPTY
\* TokenState::allowance.
allowance(self, owner, spender) ==
    IF owner \in DOMAIN self.allowances
    THEN IF spender \in DOMAIN self.allowances[owner]
         THEN self.allowances[owner][spender] ELSE 0
    ELSE 0

\* A query returns ret and leaves the state self it was given.
Reply(self, ret) == [state |-> self, err |-> Ok, ret |-> ret]
\* Mutant: the account query enters the record it does not find.
QueryAccountInserts(self, a) ==
    Reply([self EXCEPT !.accounts = OrInsert(@, a, EMPTY)], account(self, a))
\* The entry point account.
QueryAccount(self, a) == Reply(self, account(self, a))
\* The entry point allowance.
QueryAllowance(self, arg) == Reply(self, allowance(self, arg.owner, arg.spender))
\* The query entry points, by name.
Query(self, fn, arg) ==
    CASE fn = "name" -> Reply(self, name(self))
      [] fn = "symbol" -> Reply(self, symbol(self))
      [] fn = "decimals" -> Reply(self, decimals(self))
      [] fn = "total_supply" -> Reply(self, total_supply(self))
      [] fn = "account" -> QueryAccount(self, arg)
      [] fn = "allowance" -> QueryAllowance(self, arg)

\* The primitive steps of the handlers.
\* Mutant: any nonce above the one of the account is taken.
NonceAbove(nonce, account_nonce) == nonce > account_nonce
\* nonce != account.nonce + 1 panics: the nonce a request must carry.
SequentialNonce(nonce, account_nonce) == nonce = account_nonce + 1
\* Mutant: the nonce is raised by 2.
NonceSkips(nonce) == nonce + 2
\* Mutant: the nonce is left as it is.
NonceKept(nonce) == nonce
\* account.nonce += 1.
IncrementNonce(nonce) == nonce + 1
\* Mutant: the sender is not debited.
DebitOmitted(balance, value) == balance
\* account.balance -= value.
Debit(balance, value) == balance - value
\* Mutant: the value is credited twice.
CreditTwice(balance, value) == balance + value + value
\* Mutant: the balance of the recipient is set to value instead of raised by it.
CreditOverwrites(balance, value) == value
\* to_account.balance += value.
Credit(balance, value) == balance + value
\* Mutant: a transfer_from of the whole allowance leaves the allowance.
FullSpendKept(amount, value) == IF value < amount THEN amount - value ELSE amount
\* Mutant: the allowance is not spent.
AllowanceKept(amount, value) == amount
\* *allowance -= value.
SpendAllowance(amount, value) == amount - value
\* Mutant: the value is added to the amount approved before.
ApprovedAdded(old, value) == old + value
\* allowances.insert(spender, value): the amount stored over the old one.
ApprovedAmount(old, value) == value
\* Mutant: the sender field of the request is taken when it is set.
RequestedSender(caller, t) == IF t.from # None THEN t.from ELSE Contract(caller.id)
\* The account transfer_from_contract debits: Account::Contract(caller).
ContractSender(caller, t) == Contract(caller.id)

RECURSIVE transfer_from_contract(_, _, _, _)
RECURSIVE transfer_from(_, _, _)

\* The balance of every account in state self, as the account query gives it.
Balances(self) == [a \in Account |-> account(self, a).balance]
\* What a contract that queries the token reads in state self besides the
\* balances: the nonce of every account, the allowance of every pair, the
\* supply.
Readings(self) ==
    [nonces |-> [a \in Account |-> account(self, a).nonce],
     allowances |-> [o \in Account |-> [sp \in Account |-> allowance(self, o, sp)]],
     supply |-> total_supply(self)]

\* The call the recipient makes on the token contract from inside
\* token_received, if any: rusk_abi::call(token_contract,
\* "transfer_from_contract", &transfer), or "transfer_from" with a signed
\* request.
Send(self, info, cb) ==
    IF cb.send = NoSend
    THEN Return(self, <<>>, <<>>, <<>>)
    ELSE IF "signature" \in DOMAIN cb.send[1]
    THEN transfer_from(self, cb.send[1], cb.send[1].cb)
    ELSE transfer_from_contract(self, cb.send[1], info.contract, cb.send[1].cb)
\* What the token_received call leaves when the call the recipient made has
\* ended as nested.
Received(self, info, cb, nested) ==
    LET after == IF nested.err = Ok THEN nested.state ELSE self
        events == IF nested.err = Ok THEN nested.events ELSE <<>>
        sent == IF cb.send = NoSend THEN <<>>
                ELSE <<[caller |-> info.contract, req |-> cb.send[1], err |-> nested.err,
                        then |-> Balances(after), supply |-> total_supply(after)]>>
    IN  [state |-> after, ok |-> cb.result = "accept", events |-> events,
         calls |-> <<[info |-> info, seen |-> Balances(self), read |-> Readings(self)]>>
                       \o nested.calls,
         sent |-> sent]

\* rusk_abi::call(contract, "token_received", info) as the token contract sees
\* it: the recipient runs on the token state the caller has left, a nested
\* call that fails is discarded by the host, and the call returns Ok or Err.
\* Each call is logged with its argument and with what the recipient can read
\* of the token when it is called and when the transfer it sends has returned.
token_received(self, info, cb) == Received(self, info, cb, Send(self, info, cb))

\* The handler after the token_received call has ended as r: it returns, or
\* panics when the call failed.
Answered(r, events) ==
    IF r.ok
    THEN Return(r.state, events \o r.events, r.calls, r.sent)
    ELSE Panic(r.state, TokenReceivedFailed, events \o r.events, r.calls, r.sent)

\* Mutant: token_received is told the recipient as the sender.
AcceptanceFromRecipient(self, to, from, value, events, cb) ==
    IF to.kind = "Contract"
    THEN Answered(token_received(self, TransferInfo(to, to, value), cb), events)
    ELSE Return(self, events, <<>>, <<>>)

\* Mutant: the result of the call of token_received is not looked at.
AcceptanceUnchecked(self, to, from, value, events, cb) ==
    IF to.kind = "Contract"
    THEN LET r == token_received(self, TransferInfo(to, from, value), cb)
         IN  Return(r.state, events \o r.events, r.calls, r.sent)
    ELSE Return(self, events, <<>>, <<>>)

\* The tail shared by the three transfers: when to is a contract its
\* acceptance function is called, and its failure panics.
Acceptance(self, to, from, value, events, cb) ==
    IF to.kind = "Contract"
    THEN Answered(token_received(self, TransferInfo(to, from, value), cb), events)
    ELSE Return(self, events, <<>>, <<>>)

\* Mutant: the credit also adds value to the supply.
CreditToMints(self, to, value) ==
    LET inserted == OrInsert(self.accounts, to, EMPTY)
    IN  [self EXCEPT !.accounts = [inserted EXCEPT ![to].balance = Credit(@, value)],
                     !.supply = @ + value]
\* The credit of value to to, creating its record when absent.
CreditTo(self, to, value) ==
    LET inserted == OrInsert(self.accounts, to, EMPTY)
    IN  [self EXCEPT !.accounts = [inserted EXCEPT ![to].balance = Credit(@, value)]]

\* Mutant: transfer checks the nonce before the balance.
transfer_NonceFirst(self, t, cb) ==
    LET from == External(t.from)
        value == t.value
    IN  IF from \notin DOMAIN self.accounts
        THEN Panic(self, NoTokensToTransfer, <<>>, <<>>, <<>>)
        ELSE IF ~SequentialNonce(t.nonce, self.accounts[from].nonce)
        THEN Panic(self, NonSequentialNonce, <<>>, <<>>, <<>>)
        ELSE IF self.accounts[from].balance < value
        THEN Panic(self, NotEnoughTokens, <<>>, <<>>, <<>>)
        ELSE LET debited == [self EXCEPT !.accounts[from].balance = Debit(@, value),
                                         !.accounts[from].nonce = IncrementNonce(@)]
             IN  IF ~verify_bls(TransferMessage(t), t.from, t.signature)
                 THEN Panic(debited, InvalidSignature, <<>>, <<>>, <<>>)
                 ELSE Acceptance(CreditTo(debited, t.to, value), t.to, from, value,
                                 <<TransferEvent(from, None, t.to, value)>>, cb)

\* TokenState::transfer.
transfer(self, t, cb) ==
    LET from == External(t.from)
        value == t.value
    IN  IF from \notin DOMAIN self.accounts
        THEN Panic(self, NoTokensToTransfer, <<>>, <<>>, <<>>)
        ELSE IF self.accounts[from].balance < value
        THEN Panic(self, NotEnoughTokens, <<>>, <<>>, <<>>)
        ELSE IF ~SequentialNonce(t.nonce, self.accounts[from].nonce)
        THEN Panic(self, NonSequentialNonce, <<>>, <<>>, <<>>)
        ELSE LET debited == [self EXCEPT !.accounts[from].balance = Debit(@, value),
                                         !.accounts[from].nonce = IncrementNonce(@)]
             IN  IF ~verify_bls(TransferMessage(t), t.from, t.signature)
                 THEN Panic(debited, InvalidSignature, <<>>, <<>>, <<>>)
                 ELSE Acceptance(CreditTo(debited, t.to, value), t.to, from, value,
                                 <<TransferEvent(from, None, t.to, value)>>, cb)

\* Mutant: transfer_from checks the balance of owner before the allowance.
transfer_from_BalanceFirst(self, t, cb) ==
    LET spender == External(t.spender)
        owner == t.owner
        value == t.value
        entered == [self EXCEPT !.accounts = OrInsert(@, spender, EMPTY)]
    IN  IF ~SequentialNonce(t.nonce, entered.accounts[spender].nonce)
        THEN Panic(entered, NonSequentialNonce, <<>>, <<>>, <<>>)
        ELSE LET counted == [entered EXCEPT !.accounts[spender].nonce = IncrementNonce(@)]
             IN  IF ~verify_bls(TransferFromMessage(t), t.spender, t.signature)
                 THEN Panic(counted, InvalidSignature, <<>>, <<>>, <<>>)
                 ELSE IF owner \notin DOMAIN counted.accounts
                 THEN Panic(counted, NoTokensToTransfer, <<>>, <<>>, <<>>)
                 ELSE IF counted.accounts[owner].balance < value
                 THEN Panic(counted, NotEnoughTokens, <<>>, <<>>, <<>>)
                 ELSE IF owner \notin DOMAIN counted.allowances
                 THEN Panic(counted, NoAllowances, <<>>, <<>>, <<>>)
                 ELSE IF spender \notin DOMAIN counted.allowances[owner]
                 THEN Panic(counted, SpenderNotAllowed, <<>>, <<>>, <<>>)
                 ELSE IF value > counted.allowances[owner][spender]
                 THEN Panic(counted, AllowanceExceeded, <<>>, <<>>, <<>>)
                 ELSE LET debited ==
                              [counted EXCEPT
                                  !.allowances[owner][spender] = SpendAllowance(@, value),
                                  !.accounts[owner].balance = Debit(@, value)]
                      IN  Acceptance(CreditTo(debited, t.to, value), t.to, owner, value,
                                     <<TransferEvent(owner, spender, t.to, value)>>, cb)

\* TokenState::transfer_from.
transfer_from(self, t, cb) ==
    LET spender == External(t.spender)
        owner == t.owner
        value == t.value
        entered == [self EXCEPT !.accounts = OrInsert(@, spender, EMPTY)]
    IN  IF ~SequentialNonce(t.nonce, entered.accounts[spender].nonce)
        THEN Panic(entered, NonSequentialNonce, <<>>, <<>>, <<>>)
        ELSE LET counted == [entered EXCEPT !.accounts[spender].nonce = IncrementNonce(@)]
             IN  IF ~verify_bls(TransferFromMessage(t), t.spender, t.signature)
                 THEN Panic(counted, InvalidSignature, <<>>, <<>>, <<>>)
                 ELSE IF owner \notin DOMAIN counted.allowances
                 THEN Panic(counted, NoAllowances, <<>>, <<>>, <<>>)
                 ELSE IF spender \notin DOMAIN counted.allowances[owner]
                 THEN Panic(counted, SpenderNotAllowed, <<>>, <<>>, <<>>)
                 ELSE IF value > counted.allowances[owner][spender]
                 THEN Panic(counted, AllowanceExceeded, <<>>, <<>>, <<>>)
                 ELSE IF owner \notin DOMAIN counted.accounts
                 THEN Panic(counted, NoTokensToTransfer, <<>>, <<>>, <<>>)
                 ELSE IF counted.accounts[owner].balance < value
                 THEN Panic(counted, NotEnoughTokens, <<>>, <<>>, <<>>)
                 ELSE LET debited ==
                              [counted EXCEPT
                                  !.allowances[owner][spender] = SpendAllowance(@, value),
                                  !.accounts[owner].balance = Debit(@, value)]
                      IN  Acceptance(CreditTo(debited, t.to, value), t.to, owner, value,
                                     <<TransferEvent(owner, spender, t.to, value)>>, cb)

\* Mutant: transfer_from_contract counts the call in the nonce of the caller.
transfer_from_contract_Counted(self, t, caller, cb) ==
    IF caller = None
    THEN Panic(self, NoCallingContract, <<>>, <<>>, <<>>)
    ELSE LET contract == ContractSender(caller, t)
         IN  IF contract \notin DOMAIN self.accounts
             THEN Panic(self, ContractHasNoTokens, <<>>, <<>>, <<>>)
             ELSE IF self.accounts[contract].balance < t.value
             THEN Panic(self, ContractNotEnoughTokens, <<>>, <<>>, <<>>)
             ELSE LET debited == [self EXCEPT !.accounts[contract].balance = Debit(@, t.value),
                                              !.accounts[contract].nonce = IncrementNonce(@)]
                  IN  Acceptance(CreditTo(debited, t.to, t.value), t.to, contract, t.value,
                                 <<TransferEvent(contract, None, t.to, t.value)>>, cb)

\* TokenState::transfer_from_contract; caller is rusk_abi::caller().
transfer_from_contract(self, t, caller, cb) ==
    IF caller = None
    THEN Panic(self, NoCallingContract, <<>>, <<>>, <<>>)
    ELSE LET contract == ContractSender(caller, t)
         IN  IF contract \notin DOMAIN self.accounts
             THEN Panic(self, ContractHasNoTokens, <<>>, <<>>, <<>>)
             ELSE IF self.accounts[contract].balance < t.value
             THEN Panic(self, ContractNotEnoughTokens, <<>>, <<>>, <<>>)
             ELSE LET debited == [self EXCEPT !.accounts[contract].balance = Debit(@, t.value)]
                  IN  Acceptance(CreditTo(debited, t.to, t.value), t.to, contract, t.value,
                                 <<TransferEvent(contract, None, t.to, t.value)>>, cb)

\* TokenState::approve.
approve(self, a) ==
    LET owner == External(a.owner)
        entered == [self EXCEPT !.accounts = OrInsert(@, owner, EMPTY)]
    IN  IF ~SequentialNonce(a.nonce, entered.accounts[owner].nonce)
        THEN Panic(entered, NonSequentialNonce, <<>>, <<>>, <<>>)
        ELSE LET counted == [entered EXCEPT !.accounts[owner].nonce = IncrementNonce(@)]
             IN  IF ~verify_bls(ApproveMessage(a), a.owner, a.signature)
                 THEN Panic(counted, InvalidSignature, <<>>, <<>>, <<>>)
                 ELSE LET spender == a.spender
                          outer == OrInsert(counted.allowances, owner, EmptyMap)
                          old == IF spender \in DOMAIN outer[owner]
                                 THEN outer[owner][spender] ELSE 0
                          inner == Insert(outer[owner], spender, ApprovedAmount(old, a.value))
                      IN  Return([counted EXCEPT !.allowances = Insert(outer, owner, inner)],
                                 <<ApproveEvent(owner, spender, a.value)>>, <<>>, <<>>)

\* ------------------------------------------------------------- the session
\* The requests the session submits.
Nonces == 0..MaxCalls
Values == 0..MaxValue
TransferBody == [kind : {"Transfer"}, from : Keys, to : Account, value : Values, nonce : Nonces]
TransferFromBody ==
    [kind : {"TransferFrom"}, spender : Keys, owner : Account, to : Account,
     value : Values, nonce : Nonces]
ApproveBody == [kind : {"Approve"}, owner : Keys, spender : Account, value : Values, nonce : Nonces]

\* The signer a request body names.
Signer(body) ==
    CASE body.kind = "Transfer" -> body.from
      [] body.kind = "TransferFrom" -> body.spender
      [] body.kind = "Approve" -> body.owner

\* The same body with another value.
OtherValue(body) == [body EXCEPT !.value = (@ + 1) % (MaxValue + 1)]

\* The signatures a request is submitted with: the one Transfer::new,
\* TransferFrom::new or Approve::new makes, the same body signed with another
\* key, and the signature its signer made for another value.
Signatures(body) == {Sign(k, body) : k \in Keys} \cup {Sign(Signer(body), OtherValue(body))}

\* The body with its signature field.
Signed(body, sig) == [x \in DOMAIN body \cup {"signature"} |->
                        IF x = "signature" THEN sig ELSE body[x]]

\* struct TransferFromContract.
TransferFromContract == [to : Account, from : {None} \cup Account, value : Values]
\* rusk_abi::caller(): the calling contract, or none for a call made by the
\* session itself.
Callers == {None} \cup {Contract(c) : c \in Contracts}

\* The genesis lists of a deployment.
GenesisLists == UNION {[1..n -> Account \X Values] : n \in 0..MaxGenesis}

Current == [accounts |-> accounts, allowances |-> allowances, supply |-> supply]

\* Mutant: the state a call leaves is kept also when the call panics.
CommitAborted(self, r) == r.state
\* Session::call of an entry point (rusk_abi::wrap_call): the state the call
\* leaves is kept when it returns, and discarded as a unit when it panics.
Commit(self, r) == IF r.err = Ok THEN r.state ELSE self

\* The events of the CallReceipt the session gets for a call: Session::call
\* gives a receipt when the call returns, and an error without one when it
\* panics.
ReceiptEvents(r) == IF r.err = Ok THEN r.events ELSE <<>>

\* The behaviours of a recipient that re-enters transfer_from from inside the
\* token_received call of the transfer_from t: it submits a request the same
\* spender has signed for the same owner, with any recipient, value and
\* nonce.
Reentrant(t) ==
    {[send |-> <<[x \in DOMAIN n \cup {"cb"} |-> IF x = "cb" THEN leaf ELSE n[x]]>>,
      result |-> answer] :
        n \in {Signed(body, Sign(body.spender, body)) :
                  body \in {b \in TransferFromBody :
                               b.spender = t.spender /\ b.owner = t.owner}},
        leaf \in LeafBehaviour, answer \in Answers}

\* The behaviours to consider for a call: those of the recipient when the
\* call reaches its acceptance function, none otherwise.
BehavioursFor(r) == IF r.calls = <<>> THEN {NotCalled} ELSE Behaviour

\* The request a recipient sent from inside token_received is a signed
\* TransferFrom (otherwise it is a TransferFromContract).
IsSigned(req) == "signature" \in DOMAIN req
\* The signed requests among the transfers recipients sent that took effect,
\* as they were signed.
SentAccepted(sent) ==
    LET ok == SelectSeq(sent, LAMBDA x : x.err = Ok /\ IsSigned(x.req))
    IN  [i \in 1..Len(ok) |-> [x \in DOMAIN ok[i].req \ {"cb"} |-> ok[i].req[x]]]
\* No approve has been accepted for any owner and spender.
NoGrants ==
    [o \in Account |-> [sp \in Account |-> [approved |-> FALSE, value |-> 0, moved |-> 0]]]
\* g with the values of the accepted TransferFrom requests of seq counted as
\* moved.
RECURSIVE CountMoved(_, _)
CountMoved(g, seq) ==
    IF seq = <<>> THEN g
    ELSE CountMoved([g EXCEPT ![seq[1].owner][External(seq[1].spender)].moved =
                                  @ + seq[1].value],
                    Tail(seq))
\* Per owner and spender, the value of the owner's most recent accepted
\* approve and the total moved by the transfer_from calls accepted since,
\* after this call.
Granted(op, req, r) ==
    IF r.err # Ok THEN granted
    ELSE IF op = "approve"
    THEN [granted EXCEPT ![External(req.owner)][req.spender] =
                             [approved |-> TRUE, value |-> req.value, moved |-> 0]]
    ELSE IF op = "transfer_from"
    THEN CountMoved(granted, <<req>> \o SentAccepted(r.sent))
    ELSE CountMoved(granted, SentAccepted(r.sent))
\* acc with each request of seq appended to the requests of its signer.
RECURSIVE AppendAll(_, _)
AppendAll(acc, seq) ==
    IF seq = <<>> THEN acc
    ELSE AppendAll([acc EXCEPT ![Signer(seq[1])] = Append(@, seq[1])], Tail(seq))
\* The signed requests accepted so far, per signer and in order, with the
\* request of this call appended when it is a signed one and returns.
Accepted(op, req, r) ==
    IF r.err # Ok THEN accepted
    ELSE AppendAll(accepted,
                   (IF op \in {"transfer", "transfer_from", "approve"} THEN <<req>> ELSE <<>>)
                       \o SentAccepted(r.sent))

\* The return value () of the mutating entry points; a query returns <<ret>>.
Unit == <<>>
\* struct Allowance, the argument of the allowance query.
Allowance == [owner : Account, spender : Account]
\* The queries the session makes.
Queries ==
    [fn : {"name", "symbol", "decimals", "total_supply"}, arg : {Unit}]
        \cup [fn : {"account"}, arg : Account]
        \cup [fn : {"allowance"}, arg : Allowance]

\* No call is in flight and none awaits its receipt.
NoCall == [op |-> "none", req |-> <<>>, caller |-> None, cb |-> NotCalled, err |-> Ok,
           pre |-> InitialState, left |-> InitialState, events |-> <<>>, calls |-> <<>>,
           sent |-> <<>>, ret |-> Unit]

\* The session can make a call: the contract is deployed and no receipt is
\* pending.
Ready == deployed /\ last = NoCall /\ ncalls < MaxCalls

\* One call of the session on the deployed contract, and its receipt.
Call(op, req, caller, cb, r) ==
    /\ accounts' = Commit(Current, r).accounts
    /\ allowances' = Commit(Current, r).allowances
    /\ supply' = Commit(Current, r).supply
    /\ ncalls' = ncalls + 1
    /\ accepted' = Accepted(op, req, r)
    /\ granted' = Granted(op, req, r)
    /\ last' = [op |-> op, req |-> req, caller |-> caller, cb |-> cb, err |-> r.err,
                pre |-> Current, left |-> r.state, events |-> r.events, calls |-> r.calls,
                sent |-> r.sent, ret |-> Unit]
    /\ UNCHANGED deployed

Init ==
    /\ accounts = InitialState.accounts
    /\ allowances = InitialState.allowances
    /\ supply = InitialState.supply
    /\ deployed = FALSE
    /\ ncalls = 0
    /\ accepted = [k \in Keys |-> <<>>]
    /\ granted = NoGrants
    /\ last = NoCall

\* The deployment of the contract: init runs once on the genesis list, and
\* the contract is deployed when init returns.
Deploy ==
    /\ ~deployed /\ last = NoCall
    /\ \E list \in GenesisLists :
         LET r == init(Current, list)
         IN  /\ accounts' = Commit(Current, r).accounts
             /\ allowances' = Commit(Current, r).allowances
             /\ supply' = Commit(Current, r).supply
             /\ deployed' = (r.err = Ok)
             /\ last' = [op |-> "init", req |-> list, caller |-> None, cb |-> NotCalled,
                         err |-> r.err, pre |-> Current, left |-> r.state,
                         events |-> r.events, calls |-> r.calls, sent |-> r.sent,
                         ret |-> Unit]
             /\ UNCHANGED <<ncalls, accepted, granted>>

\* The caller takes the receipt of the call; the session is free for the next.
TakeReceipt ==
    /\ last # NoCall
    /\ last' = NoCall
    /\ UNCHANGED <<accounts, allowances, supply, deployed, ncalls, accepted, granted>>

TransferCall ==
    /\ Ready
    /\ \E body \in TransferBody : \E sig \in Signatures(body) :
         LET t == Signed(body, sig)
         IN  \E cb \in BehavioursFor(transfer(Current, t, NotCalled)) :
                 Call("transfer", t, None, cb, transfer(Current, t, cb))

TransferFromCall ==
    /\ Ready
    /\ \E body \in TransferFromBody : \E sig \in Signatures(body) :
         LET t == Signed(body, sig)
         IN  \E cb \in BehavioursFor(transfer_from(Current, t, NotCalled)) :
                 Call("transfer_from", t, None, cb, transfer_from(Current, t, cb))

TransferFromContractCall ==
    /\ Ready
    /\ \E t \in TransferFromContract : \E caller \in Callers :
         \E cb \in BehavioursFor(transfer_from_contract(Current, t, caller, NotCalled)) :
             Call("transfer_from_contract", t, caller, cb,
                  transfer_from_contract(Current, t, caller, cb))

ApproveCall ==
    /\ Ready
    /\ \E body \in ApproveBody : \E sig \in Signatures(body) :
         LET a == Signed(body, sig)
         IN  Call("approve", a, None, NotCalled, approve(Current, a))

\* A transfer_from, signed by its spender, to a contract that re-enters
\* transfer_from from inside token_received.
ReentrantTransferFromCall ==
    /\ Ready
    /\ \E body \in TransferFromBody :
         LET t == Signed(body, Sign(body.spender, body))
         IN  /\ transfer_from(Current, t, NotCalled).calls # <<>>
             /\ \E cb \in Reentrant(t) :
                    Call("transfer_from", t, None, cb, transfer_from(Current, t, cb))

\* The Approve request with the fields of the Transfer body, owner for from
\* and spender for to, and the Transfer request with those of the Approve
\* body.
AsApprove(body) ==
    [kind |-> "Approve", owner |-> body.from, spender |-> body.to, value |-> body.value,
     nonce |-> body.nonce]
AsTransfer(body) ==
    [kind |-> "Transfer", from |-> body.owner, to |-> body.spender, value |-> body.value,
     nonce |-> body.nonce]

\* A transfer submitted with the signature its sender made for an approve of
\* the same value and nonce to the same account.
TransferWithApproveSignature ==
    /\ Ready
    /\ \E body \in TransferBody :
         LET t == Signed(body, Sign(body.from, AsApprove(body)))
         IN  \E cb \in BehavioursFor(transfer(Current, t, NotCalled)) :
                 Call("transfer", t, None, cb, transfer(Current, t, cb))

\* An approve submitted with the signature its owner made for a transfer of
\* the same value and nonce to the same account.
ApproveWithTransferSignature ==
    /\ Ready
    /\ \E body \in ApproveBody :
         LET a == Signed(body, Sign(body.owner, AsTransfer(body)))
         IN  Call("approve", a, None, NotCalled, approve(Current, a))

\* A query of the session on the deployed contract.
QueryCall ==
    /\ deployed /\ last = NoCall
    /\ \E q \in Queries :
         LET r == Query(Current, q.fn, q.arg)
         IN  /\ accounts' = r.state.accounts
             /\ allowances' = r.state.allowances
             /\ supply' = r.state.supply
             /\ last' = [op |-> q.fn, req |-> q.arg, caller |-> None, cb |-> NotCalled,
                         err |-> r.err, pre |-> Current, left |-> r.state,
                         events |-> <<>>, calls |-> <<>>, sent |-> <<>>, ret |-> <<r.ret>>]
             /\ UNCHANGED <<deployed, ncalls, accepted, granted>>

Next ==
    \/ Deploy
    \/ TransferCall
    \/ TransferFromCall
    \/ TransferFromContractCall
    \/ ApproveCall
    \/ QueryCall
    \/ TakeReceipt

Spec == Init /\ [][Next]_vars

\* The sessions in which the accounts have signed only approves where they
\* submit transfers, and only transfers where they submit approves.
CrossKindNext ==
    \/ Deploy
    \/ TransferWithApproveSignature
    \/ ApproveWithTransferSignature
    \/ QueryCall
    \/ TakeReceipt
CrossKindSpec == Init /\ [][CrossKindNext]_vars

\* The sessions in which a recipient may also re-enter transfer_from.
ReentryNext ==
    \/ Next
    \/ ReentrantTransferFromCall
ReentrySpec == Init /\ [][ReentryNext]_vars

\* ------------------------------------------- the comparison of accounts
\* Three accounts to compare, none compared yet.
OrdInit ==
    /\ accounts = InitialState.accounts
    /\ allowances = InitialState.allowances
    /\ supply = InitialState.supply
    /\ deployed = FALSE
    /\ ncalls = 0
    /\ accepted = [k \in Keys |-> <<>>]
    /\ granted = NoGrants
    /\ \E a \in OrdAccount : \E b \in OrdAccount : \E c \in OrdAccount :
           last = [NoCall EXCEPT !.op = "cmp", !.req = <<a, b, c>>]
\* The accounts are compared with each other.
Compare ==
    /\ last.op = "cmp" /\ last.ret = Unit
    /\ LET a == last.req[1]
           b == last.req[2]
           c == last.req[3]
       IN  last' = [last EXCEPT !.ret = <<[aa |-> cmp(a, a), ab |-> cmp(a, b), ba |-> cmp(b, a),
                                          bc |-> cmp(b, c), ac |-> cmp(a, c), cb |-> cmp(c, b)]>>]
    /\ UNCHANGED <<accounts, allowances, supply, deployed, ncalls, accepted, granted>>
OrdNext == Compare
OrdSpec == OrdInit /\ [][OrdNext]_vars

\* ------------------------------------------- the messages that are signed
\* The request bodies whose messages are compared: those of the session and
\* those with a value of more than one byte.
MsgBodies ==
    [kind : {"Transfer"}, from : Keys, to : Account, value : Values \cup WideValues,
     nonce : Nonces]
        \cup [kind : {"TransferFrom"}, spender : Keys, owner : Account, to : Account,
               value : Values \cup WideValues, nonce : Nonces]
        \cup [kind : {"Approve"}, owner : Keys, spender : Account,
               value : Values \cup WideValues, nonce : Nonces]
\* Two requests of one kind, their messages not yet made.
MsgInit ==
    /\ accounts = InitialState.accounts
    /\ allowances = InitialState.allowances
    /\ supply = InitialState.supply
    /\ deployed = FALSE
    /\ ncalls = 0
    /\ accepted = [k \in Keys |-> <<>>]
    /\ granted = NoGrants
    /\ \E x \in MsgBodies : \E y \in MsgBodies :
           /\ x.kind = y.kind
           /\ last = [NoCall EXCEPT !.op = "signature_message", !.req = <<x, y>>]
\* signature_message is called on both requests.
Encode ==
    /\ last.op = "signature_message" /\ last.ret = Unit
    /\ last' = [last EXCEPT !.ret = <<[x |-> SignatureMessage(last.req[1]),
                                       y |-> SignatureMessage(last.req[2])]>>]
    /\ UNCHANGED <<accounts, allowances, supply, deployed, ncalls, accepted, granted>>
MsgNext == Encode
MsgSpec == MsgInit /\ [][MsgNext]_vars

\* ================================================================ claims
\* Vocabulary of the claims.
RECURSIVE SumBalances(_, _)
SumBalances(self, set) ==
    IF set = {} THEN 0
    ELSE LET a == CHOOSE x \in set : TRUE
         IN  self.accounts[a].balance + SumBalances(self, set \ {a})
\* The sum of the balances of all account records.
TotalBalance(self) == SumBalances(self, DOMAIN self.accounts)

SignedOps == {"transfer", "transfer_from", "approve"}
MutatingOps == SignedOps \cup {"transfer_from_contract"}
Succeeded == last.op \in MutatingOps /\ last.err = Ok
Failed == last.op \in MutatingOps /\ last.err # Ok

\* The request without its signature field.
Body(req) == [x \in DOMAIN req \ {"signature"} |-> req[x]]
\* The request carries the signature its signer makes for it.
ProperlySigned(req) == req.signature = Sign(Signer(req), Body(req))
\* The entries of a sequence.
Range(seq) == {seq[i] : i \in 1..Len(seq)}
\* The (owner, spender) pair has an allowance entry.
HasAllowance(self, owner, spender) ==
    owner \in DOMAIN self.allowances /\ spender \in DOMAIN self.allowances[owner]
\* The recipient contract made a transfer of its own, from inside
\* token_received, that took effect.
RecipientSent == \E i \in 1..Len(last.sent) : last.sent[i].err = Ok

\* C1: in every state reachable from genesis by any sequence of calls,
\* successful or failed, total_supply equals the sum of the balances of all
\* account records.
C1_SupplyIsSumOfBalances == total_supply(Current) = TotalBalance(Current)
\* C1 witness: a transfer of a positive value has succeeded after another call.
C1_Witness ==
    /\ Succeeded /\ last.op = "transfer" /\ last.req.value > 0
    /\ ncalls = MaxCalls /\ supply > 0

\* The handler run of a signed request on the current state.
Resubmit(req, cb) ==
    CASE req.kind = "Transfer" -> transfer(Current, req, cb)
      [] req.kind = "TransferFrom" -> transfer_from(Current, req, cb)
      [] req.kind = "Approve" -> approve(Current, req)

\* C2: no replay. The nonces of the signed requests accepted from an account,
\* of all three kinds together and in order of acceptance, are 1, 2, 3, ...
\* with no repeat and no gap; and a request that has been accepted does not
\* succeed when it is submitted again, whatever the recipient answers.
C2_NoReplay ==
    \A k \in Keys :
        /\ \A i \in 1..Len(accepted[k]) : accepted[k][i].nonce = i
        /\ last = NoCall =>
               \A i \in 1..Len(accepted[k]) : \A cb \in Behaviour :
                   Resubmit(accepted[k][i], cb).err # Ok
\* C2 witness: an accepted request has been submitted again, and rejected.
C2_Witness ==
    /\ Failed /\ last.op \in SignedOps
    /\ last.req \in Range(accepted[Signer(last.req)])
    /\ last.err = NonSequentialNonce

\* The request of the last call is one the claimed preconditions reject.
MustBeRejected ==
    LET pre == last.pre
        req == last.req
    IN  CASE last.op = "transfer" ->
               \/ External(req.from) \notin DOMAIN pre.accounts
               \/ account(pre, External(req.from)).balance < req.value
               \/ req.nonce # account(pre, External(req.from)).nonce + 1
               \/ ~ProperlySigned(req)
          [] last.op = "transfer_from" ->
               \/ req.nonce # account(pre, External(req.spender)).nonce + 1
               \/ ~ProperlySigned(req)
               \/ ~HasAllowance(pre, req.owner, External(req.spender))
               \/ allowance(pre, req.owner, External(req.spender)) < req.value
               \/ account(pre, req.owner).balance < req.value
          [] last.op = "approve" ->
               \/ req.nonce # account(pre, External(req.owner)).nonce + 1
               \/ ~ProperlySigned(req)
          [] last.op = "transfer_from_contract" ->
               \/ last.caller = None
               \/ last.caller \notin DOMAIN pre.accounts
               \/ account(pre, last.caller).balance < req.value
          [] OTHER -> FALSE

\* C3: a call that is rejected, and every call whose request has a missing
\* account, an insufficient balance, a bad nonce, a bad signature or a missing
\* or insufficient allowance is rejected, leaves the balances, the nonces,
\* the allowances, the set of account records and the supply as they were.
C3_RejectedCallChangesNothing ==
    /\ MustBeRejected => Failed
    /\ Failed => Current = last.pre
\* C3 witness: a call was rejected after the handler had already changed the
\* state (the nonce incremented, the sender debited, a record created).
C3_Witness ==
    /\ Failed /\ MustBeRejected
    /\ last.err = InvalidSignature
    /\ last.left # last.pre
    /\ DOMAIN last.left.accounts # DOMAIN last.pre.accounts

\* C4: when the recipient of a transfer, transfer_from or
\* transfer_from_contract is a contract whose token_received fails, the call
\* fails and the state after it is the state before it.
C4_FailedAcceptanceUndoesAll ==
    (last.op \in MutatingOps /\ last.calls # <<>> /\ last.cb.result = "reject")
        => (last.err = TokenReceivedFailed /\ Current = last.pre)
\* C4 witness: a transfer_from of a positive value was refused by its recipient
\* after the debit, the credit, the nonce and the allowance had changed.
C4_Witness ==
    /\ last.op = "transfer_from" /\ last.err = TokenReceivedFailed
    /\ last.req.value > 0
    /\ last.left.allowances # last.pre.allowances
    /\ last.left.accounts # last.pre.accounts
    /\ Current = last.pre

\* Between the state before the last call and the state after it, value has
\* moved from from to to and no other balance has changed.
Moved(from, to, value) ==
    \A a \in Account :
        account(Current, a).balance =
            account(last.pre, a).balance - (IF a = from THEN value ELSE 0)
                                         + (IF a = to THEN value ELSE 0)
\* The nonce of signer has increased by 1 and no other nonce has changed.
NonceUsed(signer) ==
    \A a \in Account :
        account(Current, a).nonce =
            account(last.pre, a).nonce + (IF a = signer THEN 1 ELSE 0)
\* Every allowance is as before, except that of (owner, spender), now amount.
AllowancesSameExcept(owner, spender, amount) ==
    \A o \in Account : \A sp \in Account :
        allowance(Current, o, sp) =
            IF o = owner /\ sp = spender THEN amount ELSE allowance(last.pre, o, sp)
AllowancesSame ==
    \A o \in Account : \A sp \in Account :
        allowance(Current, o, sp) = allowance(last.pre, o, sp)

\* What C5 says of a transfer that has succeeded.
TransferEffect ==
    /\ Moved(External(last.req.from), last.req.to, last.req.value)
    /\ last.req.to \in DOMAIN accounts
    /\ NonceUsed(External(last.req.from))
    /\ AllowancesSame
    /\ supply = last.pre.supply

C5_WitnessSelf ==
    /\ Succeeded /\ last.op = "transfer" /\ last.req.value > 0
    /\ last.req.to = External(last.req.from)

\* The last call is a transfer_from that has succeeded.
TransferFromSucceeded == Succeeded /\ last.op = "transfer_from"
\* The recipient of the last call, if it is called, accepts.
RecipientAccepts == last.calls = <<>> \/ last.cb.result = "accept"

\* What C6 says of a transfer_from that has succeeded.
TransferFromEffect ==
    LET spender == External(last.req.spender)
        owner == last.req.owner
        value == last.req.value
    IN  /\ AllowancesSameExcept(owner, spender, allowance(last.pre, owner, spender) - value)
        /\ Moved(owner, last.req.to, value)
        /\ NonceUsed(spender)
        /\ supply = last.pre.supply

C7_ApproveOverwrites ==
    (Succeeded /\ last.op = "approve") =>
        /\ AllowancesSameExcept(External(last.req.owner), last.req.spender, last.req.value)
        /\ NonceUsed(External(last.req.owner))
        /\ Moved(External(last.req.owner), last.req.spender, 0)
        /\ supply = last.pre.supply
\* C7 witness: an allowance approved with a positive value has been approved
\* again with 0.
C7_Witness ==
    /\ Succeeded /\ last.op = "approve" /\ last.req.value = 0
    /\ allowance(last.pre, External(last.req.owner), last.req.spender) > 0
    /\ allowance(Current, External(last.req.owner), last.req.spender) = 0

\* The first precondition of transfer, in the claimed order, that the request
\* of the last call violates.
FirstTransferFailure ==
    LET from == External(last.req.from)
    IN  CASE from \notin DOMAIN last.pre.accounts -> {NoTokensToTransfer}
          [] account(last.pre, from).balance < last.req.value -> {NotEnoughTokens}
          [] last.req.nonce # account(last.pre, from).nonce + 1 -> {NonSequentialNonce}
          [] ~ProperlySigned(last.req) -> {InvalidSignature}
          [] OTHER -> {Ok, TokenReceivedFailed}

\* C8: transfer fails with the first violated of: the sender has a record,
\* its balance covers value, the nonce is the next one, the signature
\* verifies; and with none of them when all four hold.
C8_TransferCheckOrder == last.op = "transfer" => last.err \in FirstTransferFailure
\* C8 witness: a transfer with too large a value, a wrong nonce and a wrong
\* signature together has failed for its value.
C8_Witness ==
    /\ last.op = "transfer" /\ last.err = NotEnoughTokens
    /\ last.req.nonce # account(last.pre, External(last.req.from)).nonce + 1
    /\ ~ProperlySigned(last.req)

\* The spender of the last call, a transfer_from, is authenticated.
SpenderAuthenticated ==
    /\ last.op = "transfer_from"
    /\ last.req.nonce = account(last.pre, External(last.req.spender)).nonce + 1
    /\ ProperlySigned(last.req)
\* The two panics of a missing allowance entry.
NoAllowance == {NoAllowances, SpenderNotAllowed}
\* The first failure of transfer_from after the authentication, in the
\* claimed order.
FirstTransferFromFailure ==
    LET spender == External(last.req.spender)
        owner == last.req.owner
    IN  CASE ~HasAllowance(last.pre, owner, spender) -> NoAllowance
          [] last.req.value > allowance(last.pre, owner, spender) -> {AllowanceExceeded}
          [] account(last.pre, owner).balance < last.req.value -> {NotEnoughTokens}
          [] OTHER -> {Ok, TokenReceivedFailed}

\* C9: once the spender is authenticated, transfer_from fails for a missing
\* allowance entry (also with value 0), else for a value above the allowance,
\* else for a balance of owner below value, and otherwise does not fail in
\* the contract; an entry of 0 is an entry, so value 0 passes against it.
C9_TransferFromCheckOrder ==
    /\ SpenderAuthenticated => last.err \in FirstTransferFromFailure
    /\ ( /\ SpenderAuthenticated /\ last.req.value = 0 /\ RecipientAccepts
         /\ HasAllowance(last.pre, last.req.owner, External(last.req.spender)) )
           => Succeeded
\* C9 witness: a value above both the allowance and the balance of owner has
\* failed for the allowance.
C9_Witness ==
    /\ SpenderAuthenticated /\ last.err = AllowanceExceeded
    /\ account(last.pre, last.req.owner).balance < last.req.value
\* C9 witnesses of the other cases: value 0 without an entry, and value 0
\* against an entry of 0.
C9_WitnessNoEntry ==
    SpenderAuthenticated /\ last.req.value = 0 /\ last.err \in NoAllowance
C9_WitnessZeroEntry ==
    /\ SpenderAuthenticated /\ last.req.value = 0 /\ Succeeded
    /\ allowance(last.pre, last.req.owner, External(last.req.spender)) = 0

\* The calling contract cannot pay: there is none, it has no record, or its
\* balance is below value.
CallerCannotPay ==
    \/ last.caller = None
    \/ last.caller \notin DOMAIN last.pre.accounts
    \/ account(last.pre, last.caller).balance < last.req.value

SuccessfulSigner ==
    IF Succeeded /\ last.op \in SignedOps THEN External(Signer(last.req)) ELSE None

\* C11: across every call the nonce of every account stays as it was, except
\* that of the signer of a successful transfer, approve or transfer_from,
\* which increases by exactly 1; so no nonce decreases, and the recipient of
\* a transfer, the owner of a transfer_from and the spender of an approve keep
\* theirs.
C11_NonceOnlyCountsSigner ==
    last.op \in MutatingOps =>
        \A a \in Account :
            account(Current, a).nonce =
                account(last.pre, a).nonce + (IF a = SuccessfulSigner THEN 1 ELSE 0)
\* C11 witness: a transfer_from has succeeded whose owner, an account that
\* has approved before, and whose recipient are not the spender.
C11_Witness ==
    /\ TransferFromSucceeded /\ last.req.value > 0
    /\ External(last.req.spender) \notin {last.req.owner, last.req.to}
    /\ account(Current, last.req.owner).nonce = 1
    /\ account(Current, External(last.req.spender)).nonce = 1

\* The last call is a transfer_from_contract that has succeeded.
TransferFromContractSucceeded == Succeeded /\ last.op = "transfer_from_contract"

\* C12 as stated: a successful transfer_from_contract increases the nonce of
\* the calling contract by exactly 1.
C12_Original ==
    TransferFromContractSucceeded =>
        account(Current, last.caller).nonce = account(last.pre, last.caller).nonce + 1
\* C12 amended: a successful transfer_from_contract leaves the nonce of the
\* calling contract, and every other nonce, as it was.
C12_ContractNonceUnchanged ==
    TransferFromContractSucceeded =>
        \A a \in Account : account(Current, a).nonce = account(last.pre, a).nonce
\* C12 witness: a contract has sent a positive value.
C12_Witness ==
    /\ TransferFromContractSucceeded /\ last.req.value > 0
    /\ account(Current, last.caller).balance < account(last.pre, last.caller).balance
    /\ account(Current, last.caller).nonce = 0

QueryOps == {"name", "symbol", "decimals", "total_supply", "account", "allowance"}
\* What a query is to return on the state before it, read off the maps.
StoredAnswer ==
    LET pre == last.pre
        arg == last.req
    IN  CASE last.op = "account" ->
               IF arg \in DOMAIN pre.accounts THEN pre.accounts[arg]
               ELSE [balance |-> 0, nonce |-> 0]
          [] last.op = "allowance" ->
               IF arg.owner \in DOMAIN pre.allowances
                  /\ arg.spender \in DOMAIN pre.allowances[arg.owner]
               THEN pre.allowances[arg.owner][arg.spender] ELSE 0
          [] last.op = "total_supply" -> pre.supply
          [] OTHER -> last.ret[1]

\* C13: a query returns the stored record or {balance 0, nonce 0}, the stored
\* amount or 0, and leaves the account records, the allowance entries and the
\* supply exactly as they were.
C13_QueriesArePureReads ==
    last.op \in QueryOps => (last.ret = <<StoredAnswer>> /\ Current = last.pre)
\* C13 witness: the account query of an identity without a record has
\* returned the empty record, on a state that has records, and allowance has
\* returned 0 for a pair without an entry under an owner that has entries.
C13_Witness ==
    /\ last.op = "account" /\ last.req \notin DOMAIN accounts
    /\ last.ret = <<[balance |-> 0, nonce |-> 0]>>
    /\ accounts # EmptyMap /\ allowances # EmptyMap
C13_WitnessAllowance ==
    /\ last.op = "allowance" /\ last.ret = <<0>>
    /\ last.req.owner \in DOMAIN allowances
    /\ last.req.spender \notin DOMAIN allowances[last.req.owner]

\* The sum of the amounts a genesis list gives to account a.
RECURSIVE Listed(_, _)
Listed(list, a) ==
    IF list = <<>> THEN 0
    ELSE (IF Head(list)[1] = a THEN Head(list)[2] ELSE 0) + Listed(Tail(list), a)
\* The sum of all amounts of a genesis list.
RECURSIVE ListedTotal(_)
ListedTotal(list) ==
    IF list = <<>> THEN 0 ELSE Head(list)[2] + ListedTotal(Tail(list))
\* The last call is init.
Genesis == last.op = "init"

\* C14: init that returns gives each identity the sum of all the amounts
\* listed for it and nonce 0, gives a record to the listed identities only,
\* creates no allowance, and sets the supply to the sum of all amounts.
C14_GenesisAccumulates ==
    (Genesis /\ last.err = Ok) =>
        /\ \A a \in Account :
               /\ account(Current, a) = [balance |-> Listed(last.req, a), nonce |-> 0]
               /\ a \in DOMAIN accounts <=> \E i \in 1..Len(last.req) : last.req[i][1] = a
        /\ allowances = EmptyMap
        /\ supply = ListedTotal(last.req)
\* C14 witness: a list that names one identity twice with positive amounts.
C14_Witness ==
    /\ Genesis /\ last.err = Ok /\ Len(last.req) = 2
    /\ last.req[1][1] = last.req[2][1]
    /\ last.req[1][2] > 0 /\ last.req[2][2] > 0
    /\ account(Current, last.req[1][1]).balance = last.req[1][2] + last.req[2][2]

C15_WitnessOneIdentity ==
    /\ Genesis /\ last.err = ArithmeticOverflow
    /\ \E a \in Account : Listed(last.req, a) > U64_MAX

\* Three accounts have been compared.
Compared == last.op = "cmp" /\ last.ret # Unit
AtMost == {Less, Equal}

\* C16: cmp is a total order on accounts: an account equals itself and only
\* itself, b is above a exactly when a is below b, and the order is
\* transitive; External accounts are ordered by their key bytes and Contract
\* accounts by their id bytes; and every External account is on the same side
\* of every Contract account.
C16_AccountOrderIsTotal ==
    Compared =>
        LET a == last.req[1]
            b == last.req[2]
            c == last.req[3]
            r == last.ret[1]
        IN  /\ r.aa = Equal
            /\ r.ab = Equal <=> a = b
            /\ r.ab = Less <=> r.ba = Greater
            /\ r.ab = Greater <=> r.ba = Less
            /\ (r.ab \in AtMost /\ r.bc \in AtMost) => r.ac \in AtMost
            /\ a.kind = b.kind =>
                   r.ab = (IF a.id < b.id THEN Less ELSE IF a.id = b.id THEN Equal ELSE Greater)
            /\ (a.kind = c.kind /\ a.kind # b.kind) => r.ab = r.cb
            /\ (b.kind = c.kind /\ a.kind # b.kind) => r.ab = r.ac
\* C16 witness: two External accounts, the first with the lower key, have
\* been compared with a Contract account whose id is between their keys.
C16_Witness ==
    /\ Compared
    /\ last.req[1].kind = "External" /\ last.req[3].kind = "External"
    /\ last.req[2].kind = "Contract"
    /\ last.req[1].id < last.req[2].id /\ last.req[2].id < last.req[3].id
    /\ last.ret[1].ab = last.ret[1].cb

\* C17: once the contract is deployed no step changes the supply, so the
\* supply stays the one genesis has set, and total_supply returns it.
C17_SupplyIsFixed ==
    /\ [][deployed => supply' = supply]_vars
    /\ [](last.op = "total_supply" => last.ret = <<supply>>)
\* C17 witness: total_supply has been asked after MaxCalls calls, the last of
\* which moved tokens, and has returned a positive supply.
C17_Witness ==
    /\ last.op = "total_supply" /\ last.ret = <<supply>> /\ supply > 0
    /\ ncalls = MaxCalls
    /\ \E a \in Account : account(Current, a).balance > 0 /\ account(Current, a).nonce > 0

TransferOps == {"transfer", "transfer_from", "transfer_from_contract"}
\* The account the last call, a transfer of one of the three kinds, debits.
DebitedAccount ==
    CASE last.op = "transfer" -> External(last.req.from)
      [] last.op = "transfer_from" -> last.req.owner
      [] last.op = "transfer_from_contract" -> last.caller
\* The last call has passed every check of its handler.
PassedChecks == last.err \in {Ok, TokenReceivedFailed}
\* The balances seen are those before the last call with value moved from
\* from to to.
MovedIn(seen, from, to, value) ==
    \A a \in Account :
        seen[a] =
            account(last.pre, a).balance - (IF a = from THEN value ELSE 0)
                                         + (IF a = to THEN value ELSE 0)
\* The transfer the recipient made from inside token_received has itself
\* reached the acceptance function of its recipient.
NestedInvoked ==
    /\ last.sent # <<>>
    /\ last.sent[1].req.to.kind = "Contract"
    /\ last.sent[1].err \in {Ok, TokenReceivedFailed}

\* C18: a transfer, transfer_from or transfer_from_contract to an External
\* account, or one that fails a check, calls no token_received; one to a
\* Contract account that passes the checks calls token_received of that
\* contract exactly once, on balances to which the debit and the credit are
\* applied, with from the debited account (the sender, the owner, the calling
\* contract) and value; and the only other call is the one for a transfer the
\* recipient makes itself, with that recipient as from.
C18_AcceptanceCalledOnce ==
    last.op \in TransferOps =>
        /\ (last.req.to.kind = "External" \/ ~PassedChecks) => last.calls = <<>>
        /\ (last.req.to.kind = "Contract" /\ PassedChecks) =>
               /\ Len(last.calls) = 1 + (IF NestedInvoked THEN 1 ELSE 0)
               /\ last.calls[1].info = [contract |-> last.req.to, from |-> DebitedAccount,
                                        value |-> last.req.value]
               /\ MovedIn(last.calls[1].seen, DebitedAccount, last.req.to, last.req.value)
               /\ NestedInvoked =>
                      last.calls[2].info = [contract |-> last.sent[1].req.to,
                                            from |-> last.req.to,
                                            value |-> last.sent[1].req.value]
\* C18 witness: a transfer_from of a positive value by a spender that is not
\* the owner, to a contract that had no record, has called token_received
\* with the owner.
C18_Witness ==
    /\ TransferFromSucceeded /\ last.req.value > 0
    /\ last.req.to.kind = "Contract" /\ last.req.to \notin DOMAIN last.pre.accounts
    /\ External(last.req.spender) # last.req.owner
    /\ Len(last.calls) = 1
    /\ last.calls[1].info.from = last.req.owner
\* C18 witness of a recipient that sends on to a contract: two calls.
C18_WitnessNested ==
    /\ last.op = "transfer" /\ Succeeded /\ NestedInvoked /\ Len(last.calls) = 2

\* An event as its observer reads it: a topic and the fields of the payload.
Event(topic, owner, spender, to, value) ==
    [topic |-> topic, owner |-> owner, spender |-> spender, to |-> to, value |-> value]
\* The event the handler of the last call is to emit for its own transfer or
\* approval.
OwnEvent ==
    CASE last.op = "transfer" ->
             Event("transfer", External(last.req.from), None, last.req.to, last.req.value)
      [] last.op = "transfer_from" ->
             Event("transfer", last.req.owner, External(last.req.spender), last.req.to,
                   last.req.value)
      [] last.op = "transfer_from_contract" ->
             Event("transfer", last.caller, None, last.req.to, last.req.value)
      [] last.op = "approve" ->
             Event("approve", External(last.req.owner), last.req.spender, None,
                   last.req.value)
\* The events of the transfers the recipient made from inside token_received
\* that took effect: each a successful transfer_from_contract of its own.
SentEvents ==
    [i \in 1..Len(SelectSeq(last.sent, LAMBDA s : s.err = Ok)) |->
        LET s == SelectSeq(last.sent, LAMBDA x : x.err = Ok)[i]
        IN  Event("transfer", s.caller, None, s.req.to, s.req.value)]

C19_WitnessRefused ==
    /\ last.op = "transfer" /\ last.err = TokenReceivedFailed
    /\ last.events = <<OwnEvent>> /\ ReceiptEvents(last) = <<>>
    /\ Current = last.pre
\* C19 witness of an approve.
C19_WitnessApprove ==
    /\ last.op = "approve" /\ Succeeded /\ last.req.value > 0
    /\ ReceiptEvents(last) = <<OwnEvent>>
\* C19 witness of a recipient that sends on: the receipt carries the event of
\* the transfer and then the event of the transfer the recipient made.
C19_WitnessSentOn ==
    /\ last.op = "transfer" /\ Succeeded /\ RecipientSent
    /\ Len(ReceiptEvents(last)) = 2
    /\ ReceiptEvents(last)[2].owner = last.req.to

\* The messages of the two requests have been made.
Encoded == last.op = "signature_message" /\ last.ret # Unit
\* The bytes of msg from offset (counted from 0) on, width of them.
Field(msg, offset, width) == SubSeq(msg, offset + 1, offset + width)
\* The key whose raw bytes are bytes.
KeyOf(bytes) == CHOOSE k \in Keys : \A i \in 1..PK_RAW_SIZE : bytes[i] = k
\* The account read back from its ACCOUNT_SIZE bytes: the tag byte gives the
\* kind, the bytes after it the key or the contract id.
AccountOf(bytes) ==
    IF bytes[1] = 0
    THEN External(CHOOSE k \in Keys : \A i \in 2..ACCOUNT_SIZE : bytes[i] = k)
    ELSE Contract(CHOOSE c \in Contracts :
                      /\ \A i \in 2..(1 + CONTRACT_ID_SIZE) : bytes[i] = c
                      /\ \A i \in (2 + CONTRACT_ID_SIZE)..ACCOUNT_SIZE : bytes[i] = 0)
\* The number whose U64_SIZE little-endian bytes are bytes.
RECURSIVE LeValue(_)
LeValue(bytes) == IF bytes = <<>> THEN 0 ELSE bytes[1] + 256 * LeValue(Tail(bytes))
\* The message is the fixed-width concatenation of the fields of the request,
\* in the order of its kind.
LaidOut(body, msg) ==
    CASE body.kind = "Transfer" ->
             /\ Len(msg) = Transfer_SIGNATURE_MSG_SIZE
             /\ KeyOf(Field(msg, 0, PK_RAW_SIZE)) = body.from
             /\ AccountOf(Field(msg, PK_RAW_SIZE, ACCOUNT_SIZE)) = body.to
             /\ LeValue(Field(msg, PK_RAW_SIZE + ACCOUNT_SIZE, U64_SIZE)) = body.value
             /\ LeValue(Field(msg, PK_RAW_SIZE + ACCOUNT_SIZE + U64_SIZE, U64_SIZE)) = body.nonce
      [] body.kind = "TransferFrom" ->
             /\ Len(msg) = TransferFrom_SIGNATURE_MSG_SIZE
             /\ KeyOf(Field(msg, 0, PK_RAW_SIZE)) = body.spender
             /\ AccountOf(Field(msg, PK_RAW_SIZE, ACCOUNT_SIZE)) = body.owner
             /\ AccountOf(Field(msg, PK_RAW_SIZE + ACCOUNT_SIZE, ACCOUNT_SIZE)) = body.to
             /\ LeValue(Field(msg, PK_RAW_SIZE + ACCOUNT_SIZE + ACCOUNT_SIZE, U64_SIZE))
                    = body.value
             /\ LeValue(Field(msg, PK_RAW_SIZE + ACCOUNT_SIZE + ACCOUNT_SIZE + U64_SIZE,
                              U64_SIZE)) = body.nonce
      [] body.kind = "Approve" ->
             /\ Len(msg) = Approve_SIGNATURE_MSG_SIZE
             /\ KeyOf(Field(msg, 0, PK_RAW_SIZE)) = body.owner
             /\ AccountOf(Field(msg, PK_RAW_SIZE, ACCOUNT_SIZE)) = body.spender
             /\ LeValue(Field(msg, PK_RAW_SIZE + ACCOUNT_SIZE, U64_SIZE)) = body.value
             /\ LeValue(Field(msg, PK_RAW_SIZE + ACCOUNT_SIZE + U64_SIZE, U64_SIZE)) = body.nonce

\* C20: the signature message of a Transfer, a TransferFrom or an Approve
\* request is the concatenation, without delimiters, of its fields at fixed
\* widths and in the order of its kind (signer key, accounts, value, nonce),
\* each field readable back from its place; two requests of one kind that
\* differ in a field have different messages; and the bytes of an External
\* account start with 0, those of a Contract account with 1, so that accounts
\* of different kinds never have the same bytes.
C20_MessagesAreInjective ==
    /\ Encoded =>
           /\ LaidOut(last.req[1], last.ret[1].x)
           /\ LaidOut(last.req[2], last.ret[1].y)
           /\ last.req[1] # last.req[2] => last.ret[1].x # last.ret[1].y
    /\ \A a \in Account :
           /\ Len(AccountBytes[a]) = ACCOUNT_SIZE
           /\ AccountBytes[a][1] = (IF a.kind = "External" THEN 0 ELSE 1)
    /\ \A a \in Account : \A b \in Account : a # b => AccountBytes[a] # AccountBytes[b]
\* C20 witness: two Transfer requests that differ only in the kind of their
\* recipient, an External and a Contract account of the same number, have
\* been encoded to different messages.
C20_Witness ==
    /\ Encoded /\ last.req[1].kind = "Transfer"
    /\ last.req[1].to.kind = "External" /\ last.req[2].to.kind = "Contract"
    /\ last.req[1].to.id = last.req[2].to.id
    /\ [last.req[1] EXCEPT !.to = last.req[2].to] = last.req[2]
    /\ last.ret[1].x # last.ret[1].y
\* C20 witness of two TransferFrom requests that differ only in a value whose
\* low byte is the same.
C20_WitnessWide ==
    /\ Encoded /\ last.req[1].kind = "TransferFrom"
    /\ last.req[1].value = 0 /\ last.req[2].value \in WideValues
    /\ [last.req[1] EXCEPT !.value = last.req[2].value] = last.req[2]
    /\ last.ret[1].x # last.ret[1].y

\* C21: whenever an External account has been compared with a Contract
\* account, the External one is Less than the Contract one and the Contract
\* one is Greater than the External one.
C21_ExternalBelowContract ==
    (Compared /\ last.req[1].kind = "External" /\ last.req[2].kind = "Contract") =>
        /\ last.ret[1].ab = Less
        /\ last.ret[1].ba = Greater
\* C21: what cmp gives instead: the External account is Greater than every
\* Contract account, and every Contract account Less than it.
C21_ExternalAboveContract ==
    (Compared /\ last.req[1].kind = "External" /\ last.req[2].kind = "Contract") =>
        /\ last.ret[1].ab = Greater
        /\ last.ret[1].ba = Less
\* C21 case: an External account with the smallest key has been compared with
\* a Contract account with the largest id.
C21_Compared ==
    /\ Compared
    /\ last.req[1] = External(1) /\ last.req[2] = Contract(MaxOrdIds)
    /\ last.ret[1].ab = Greater

\* The sum of f over the accounts of set.
RECURSIVE SumOver(_, _)
SumOver(f, set) ==
    IF set = {} THEN 0
    ELSE LET a == CHOOSE x \in set : TRUE IN f[a] + SumOver(f, set \ {a})
\* The last call is a transfer whose recipient contract has been called.
RecipientCalled == last.op \in TransferOps /\ last.calls # <<>>
\* The nonces read are those before the last call, with the nonce of the
\* signer of a transfer or transfer_from counted up.
NoncesCounted(read) ==
    \A a \in Account :
        read.nonces[a] =
            account(last.pre, a).nonce
                + (IF last.op \in SignedOps /\ a = External(Signer(last.req)) THEN 1 ELSE 0)
\* The allowances read are those before the last call, with the allowance a
\* transfer_from spends counted down.
AllowancesSpent(read) ==
    \A o \in Account : \A sp \in Account :
        read.allowances[o][sp] =
            allowance(last.pre, o, sp)
                - (IF /\ last.op = "transfer_from"
                      /\ o = last.req.owner /\ sp = External(last.req.spender)
                   THEN last.req.value ELSE 0)

\* C22: the recipient contract called by a transfer of any kind reads a token
\* state in which the debit, the credit, the nonce increment and the
\* allowance decrement of that transfer are applied and in which the supply,
\* unchanged, is the sum of the balances; so does the recipient of a
\* transfer it sends from inside token_received; when a transfer it sends
\* returns, the supply is still the sum of the balances; and when the outer
\* call fails, by the answer of the recipient or otherwise, the state is the
\* one before the outer call, whatever the transfers sent from inside did.
C22_ReentrancyIsSafe ==
    RecipientCalled =>
        /\ MovedIn(last.calls[1].seen, DebitedAccount, last.req.to, last.req.value)
        /\ NoncesCounted(last.calls[1].read)
        /\ AllowancesSpent(last.calls[1].read)
        /\ \A i \in 1..Len(last.calls) :
               /\ last.calls[i].read.supply = last.pre.supply
               /\ SumOver(last.calls[i].seen, Account) = last.calls[i].read.supply
        /\ \A i \in 1..Len(last.sent) :
               /\ last.sent[i].supply = last.pre.supply
               /\ SumOver(last.sent[i].then, Account) = last.sent[i].supply
               /\ (last.sent[i].err = Ok /\ last.err = Ok) =>
                      Balances(Current) = last.sent[i].then
        /\ last.err # Ok => Current = last.pre
\* C22 witness: the recipient of a transfer_from of a positive value has sent
\* tokens on from inside token_received, that transfer has taken effect, and
\* the recipient has then refused: nothing of either transfer is left.
C22_Witness ==
    /\ last.op = "transfer_from" /\ last.err = TokenReceivedFailed
    /\ last.req.value > 0 /\ External(last.req.spender) # last.req.owner
    /\ last.sent # <<>> /\ last.sent[1].err = Ok /\ last.sent[1].req.value > 0
    /\ last.sent[1].then # Balances(last.pre)
    /\ last.sent[1].then # last.calls[1].seen
    /\ last.calls[1].read.allowances[last.req.owner][External(last.req.spender)]
           < allowance(last.pre, last.req.owner, External(last.req.spender))
    /\ Current = last.pre
\* C22 witness of a recipient that sends on and accepts: both transfers stay.
C22_WitnessKept ==
    /\ last.op = "transfer" /\ Succeeded /\ last.req.value > 0
    /\ last.sent # <<>> /\ last.sent[1].err = Ok /\ last.sent[1].req.value > 0
    /\ last.sent[1].req.to # last.req.to
    /\ Balances(Current) = last.sent[1].then
    /\ Balances(Current) # last.calls[1].seen

\* The account a transfer sent from inside token_received debits: the owner
\* of a signed TransferFrom, the calling contract otherwise.
SentDebited(s) == IF IsSigned(s.req) THEN s.req.owner ELSE s.caller

\* C23: for every owner and spender, the total moved by the transfer_from
\* calls accepted since the owner's most recent accepted approve for that
\* spender, those a recipient made from inside token_received included, is at
\* most the value of that approve, and the allowance is what is left of it;
\* without an approve nothing is moved; and a transfer of any kind that
\* passes its checks, made by the session or from inside token_received,
\* moves at most the balance its sender has when it is made.
C23_NoDoubleSpend ==
    /\ \A o \in Account : \A sp \in Account :
           /\ granted[o][sp].moved <= granted[o][sp].value
           /\ granted[o][sp].approved =>
                  allowance(Current, o, sp) = granted[o][sp].value - granted[o][sp].moved
           /\ ~granted[o][sp].approved => granted[o][sp].moved = 0
    /\ (last.op \in TransferOps /\ PassedChecks) =>
           /\ last.req.value <= account(last.pre, DebitedAccount).balance
           /\ \A i \in 1..Len(last.sent) :
                  last.sent[i].err \in {Ok, TokenReceivedFailed} =>
                      last.sent[i].req.value <= last.calls[1].seen[SentDebited(last.sent[i])]
\* C23 witness: a transfer_from whose recipient re-entered transfer_from for
\* the same owner and spender has returned, both transfers moved a positive
\* value, and together they have used up the approve.
C23_Witness ==
    /\ TransferFromSucceeded /\ last.req.value > 0
    /\ last.sent # <<>> /\ IsSigned(last.sent[1].req) /\ last.sent[1].err = Ok
    /\ last.sent[1].req.value > 0
    /\ granted[last.req.owner][External(last.req.spender)].moved
           = last.req.value + last.sent[1].req.value
    /\ granted[last.req.owner][External(last.req.spender)].moved
           = granted[last.req.owner][External(last.req.spender)].value
\* C23 witness of the attempt: the transfer_from the recipient re-entered
\* asked for no more than the approve and no more than the owner still had,
\* and was refused, the outer transfer_from having spent the allowance.
C23_WitnessRefused ==
    /\ TransferFromSucceeded /\ last.req.value > 0
    /\ last.sent # <<>> /\ IsSigned(last.sent[1].req)
    /\ last.sent[1].err = AllowanceExceeded
    /\ last.sent[1].req.value <= allowance(last.pre, last.req.owner, External(last.req.spender))
    /\ last.sent[1].req.value <= last.calls[1].seen[last.req.owner]

\* The signature of the last call was made for a request of kind.
SignedFor(kind) == last.op \in SignedOps /\ last.req.signature.body.kind = kind

\* C24: a transfer that carries a signature made for an Approve is not
\* accepted, an approve that carries a signature made for a Transfer is not
\* accepted, and every transfer, approve and transfer_from that is accepted
\* carries the signature its signer made for a request of that kind with
\* those fields.
C24_SignatureAuthorizesItsKind ==
    /\ (last.op = "transfer" /\ SignedFor("Approve")) => last.err # Ok
    /\ (last.op = "approve" /\ SignedFor("Transfer")) => last.err # Ok
    /\ (last.op \in SignedOps /\ Succeeded) => ProperlySigned(last.req)
\* C24 case: a transfer of a positive value out of an account, carrying only
\* the signature that account made for an approve, has been accepted and has
\* moved the tokens to the account the approve names as spender.
C24_ApproveSpentAsTransfer ==
    /\ last.op = "transfer" /\ Succeeded /\ SignedFor("Approve")
    /\ last.req.signature = Sign(last.req.from, AsApprove(Body(last.req)))
    /\ last.req.value > 0 /\ last.req.to # External(last.req.from)
    /\ account(Current, External(last.req.from)).balance
           = account(last.pre, External(last.req.from)).balance - last.req.value
    /\ account(Current, last.req.to).balance
           = account(last.pre, last.req.to).balance + last.req.value
    /\ AllowancesSame
\* C24 case of the converse: an approve carrying only the signature its owner
\* made for a transfer has been accepted and has set the allowance.
C24_TransferUsedAsApprove ==
    /\ last.op = "approve" /\ Succeeded /\ SignedFor("Transfer")
    /\ last.req.value > 0
    /\ allowance(Current, External(last.req.owner), last.req.spender) = last.req.value
    /\ Balances(Current) = Balances(last.pre)
\* C24: what does hold: a request is accepted only with a signature of its
\* signer over the bytes of its own signature message, which for a Transfer
\* and an Approve with the same fields are the same bytes.
C24_SignatureCoversTheBytes ==
    (last.op \in SignedOps /\ Succeeded) =>
        /\ last.req.signature.signer = Signer(last.req)
        /\ SignatureMessage(last.req.signature.body) = SignatureMessage(Body(last.req))

\* Every owner with an allowance entry is an External account and has an
\* account record.
OwnersAreExternalWithRecord ==
    \A o \in DOMAIN allowances : o.kind = "External" /\ o \in DOMAIN accounts

\* C25 as stated: every owner with an allowance entry is an External account
\* with an account record, transfer_from never fails for an owner without
\* record, and every transfer_from whose owner is a Contract account fails
\* with the no-allowance error.
C25_Original ==
    /\ OwnersAreExternalWithRecord
    /\ last.op = "transfer_from" =>
           /\ last.err # NoTokensToTransfer
           /\ last.req.owner.kind = "Contract" => last.err = NoAllowances
\* C25: every owner with an allowance entry is an External account with an
\* account record, transfer_from never fails for an owner without record,
\* and every transfer_from whose owner is a Contract account fails: by the
\* nonce or the signature of the spender when these are not accepted, and
\* with the no-allowance error otherwise.
C25_AllowanceOwnersAreExternal ==
    /\ OwnersAreExternalWithRecord
    /\ last.op = "transfer_from" =>
           /\ last.err # NoTokensToTransfer
           /\ last.req.owner.kind = "Contract" =>
                  /\ last.err \in {NonSequentialNonce, InvalidSignature, NoAllowances}
                  /\ last.err = NonSequentialNonce <=>
                         ~SequentialNonce(last.req.nonce,
                                          account(last.pre, External(last.req.spender)).nonce)
                  /\ last.err = InvalidSignature =>
                         ~verify_bls(TransferFromMessage(last.req), last.req.spender,
                                     last.req.signature)
\* C25 witness: a transfer_from of a positive value out of a Contract account
\* that holds tokens, properly signed by a spender with the right nonce, has
\* failed with the no-allowance error.
C25_Witness ==
    /\ last.op = "transfer_from" /\ last.req.owner.kind = "Contract"
    /\ last.req.value > 0
    /\ account(last.pre, last.req.owner).balance >= last.req.value
    /\ ProperlySigned(last.req)
    /\ last.err = NoAllowances
\* C25 witness of the other failures: the same transfer_from with a nonce
\* that is not the next one has failed on the nonce.
C25_WitnessNonce ==
    /\ last.op = "transfer_from" /\ last.req.owner.kind = "Contract"
    /\ ProperlySigned(last.req)
    /\ last.err = NonSequentialNonce
\* C25 witness of an owner with an allowance entry and no tokens.
C25_WitnessOwner ==
    /\ \E o \in DOMAIN allowances : accounts[o].balance = 0 /\ allowances[o] # EmptyMap
    /\ last.op = "transfer_from" /\ last.err = NotEnoughTokens

\* Every balance of state self is within 0 .. supply, the supply is at most
\* u64::MAX, and no allowance is negative.
WithinSupply(self) ==
    /\ self.supply \in 0..U64_MAX
    /\ \A a \in DOMAIN self.accounts : self.accounts[a].balance \in 0..self.supply
    /\ \A o \in DOMAIN self.allowances : \A sp \in DOMAIN self.allowances[o] :
           self.allowances[o][sp] >= 0
\* The balances read are within 0 .. bound.
ReadWithin(balances, bound) == \A a \in Account : balances[a] \in 0..bound

\* C26: a genesis list whose amounts sum to at most u64::MAX is deployed, with
\* that sum as supply; and from then on every balance is within 0 .. supply
\* and no allowance is negative, in every state between calls, in the state
\* each call leaves when it returns or panics, in the state each recipient
\* is called on and in the state after each transfer a recipient sends: so
\* no credit has passed u64::MAX and no debit or allowance decrement has gone
\* below 0.
C26_BalancesWithinSupply ==
    /\ (last.op = "init" /\ ListedTotal(last.req) <= U64_MAX) =>
           /\ last.err = Ok /\ deployed
           /\ supply = ListedTotal(last.req)
    /\ deployed =>
           /\ WithinSupply(Current)
           /\ last.op \in MutatingOps =>
                  /\ WithinSupply(last.left)
                  /\ \A i \in 1..Len(last.calls) : ReadWithin(last.calls[i].seen, supply)
                  /\ \A i \in 1..Len(last.sent) : ReadWithin(last.sent[i].then, supply)
\* C26 witness: with a supply of u64::MAX, a transfer has credited an account
\* that held tokens up to the whole supply and drained its sender to 0.
C26_Witness ==
    /\ deployed /\ supply = U64_MAX
    /\ last.op = "transfer" /\ Succeeded /\ last.req.value > 0
    /\ account(last.pre, last.req.to).balance > 0
    /\ account(Current, last.req.to).balance = U64_MAX
    /\ account(Current, External(last.req.from)).balance = 0
\* C26 witness of an allowance spent down to 0 by a transfer_from.
C26_WitnessAllowance ==
    /\ TransferFromSucceeded /\ last.req.value > 0
    /\ allowance(Current, last.req.owner, External(last.req.spender)) = 0
    /\ account(Current, last.req.owner).balance = 0

\* The (owner, spender) pairs that have an allowance entry in state self.
AllowanceEntries(self) ==
    {p \in Account \X Account : HasAllowance(self, p[1], p[2])}

\* C27: after the deployment and after every call, successful or not, every
\* identity that had an account record before still has one and every (owner,
\* spender) pair that had an allowance entry before still has one; so an
\* account drained to balance 0 and an allowance spent or set to 0 are still
\* present.
C27_NothingIsDeleted ==
    last.op \in MutatingOps =>
        /\ DOMAIN last.pre.accounts \subseteq DOMAIN accounts
        /\ AllowanceEntries(last.pre) \subseteq AllowanceEntries(Current)
\* C27 witness: a transfer has drained its sender, who is not the recipient,
\* to balance 0, and the sender still has its record, with the nonce counted.
C27_Witness ==
    /\ last.op = "transfer" /\ Succeeded /\ last.req.value > 0
    /\ last.req.to # External(last.req.from)
    /\ External(last.req.from) \in DOMAIN accounts
    /\ accounts[External(last.req.from)].balance = 0
    /\ accounts[External(last.req.from)].nonce > 0
\* C27 witness of an allowance: a transfer_from has spent an allowance to 0
\* and the entry is still there.
C27_WitnessSpent ==
    /\ TransferFromSucceeded /\ last.req.value > 0
    /\ <<last.req.owner, External(last.req.spender)>> \in AllowanceEntries(Current)
    /\ allowances[last.req.owner][External(last.req.spender)] = 0
\* C27 witness of an approve of 0 over an allowance that was positive.
C27_WitnessZeroed ==
    /\ last.op = "approve" /\ Succeeded /\ last.req.value = 0
    /\ allowance(last.pre, External(last.req.owner), last.req.spender) > 0
    /\ <<External(last.req.owner), last.req.spender>> \in AllowanceEntries(Current)
\* C27 witness of a second entry: an approve for another spender has left the
\* entry of the first.
C27_WitnessSecond ==
    /\ last.op = "approve" /\ Succeeded
    /\ \E p \in AllowanceEntries(last.pre) :
           /\ p[1] = External(last.req.owner) /\ p[2] # last.req.spender
           /\ p \in AllowanceEntries(Current)

====
